---------------------------- MODULE Spec2Model ----------------------------
(***************************************************************************)
(* A model of the LabeledMultidigraph container                            *)
(* (src/src/labeled_multidigraph.rs; src/src/directed_graph.rs is the same *)
(* code with the payload field called `data`).                             *)
(*                                                                         *)
(* The six HashMaps of the struct are the variables.  A HashMap is a       *)
(* function whose DOMAIN is its key set; a HashSet is a set.  Every public *)
(* method is one action.  A panic is an outcome of the call that leaves    *)
(* the struct as it was when the panic! / expect was reached.              *)
(***************************************************************************)
EXTENDS Integers, Sequences, FiniteSets

VARIABLES
    vertex_to_index,   \* Map<Rc<Vertex>, VertexIndex>
    index_to_vertex,   \* Map<VertexIndex, Rc<Vertex>>
    edge_to_index,     \* Map<Rc<Edge>, EdgeIndex>
    index_to_edge,     \* Map<EdgeIndex, Rc<Edge>>
    edges_from,        \* Map<VertexIndex, Set<EdgeIndex>>
    edges_between,     \* Map<(VertexIndex, VertexIndex), Set<EdgeIndex>>
    ret,               \* the last call: its name, its argument, its outcome
    added_vertices,    \* history: Vertex -> the index add_vertex returned for it
    added_edges,       \* history: Edge -> the index add_edge returned for it
    dg_vertex_to_index,   \* the maps of a DirectedGraph (directed_graph.rs)
    dg_index_to_vertex,   \* that is given the same calls, when the two
    dg_edge_to_index,     \* implementations are compared
    dg_index_to_edge,
    dg_edges_from,
    dg_edges_between,
    dg_ret             \* the last call on the DirectedGraph

graph == <<vertex_to_index, index_to_vertex, edge_to_index, index_to_edge,
           edges_from, edges_between>>
history == <<added_vertices, added_edges>>
dg_graph == <<dg_vertex_to_index, dg_index_to_vertex, dg_edge_to_index,
              dg_index_to_edge, dg_edges_from, dg_edges_between>>
dg_vars == <<dg_vertex_to_index, dg_index_to_vertex, dg_edge_to_index,
             dg_index_to_edge, dg_edges_from, dg_edges_between, dg_ret>>
vars == <<vertex_to_index, index_to_vertex, edge_to_index, index_to_edge,
          edges_from, edges_between, ret, added_vertices, added_edges,
          dg_vertex_to_index, dg_index_to_vertex, dg_edge_to_index,
          dg_index_to_edge, dg_edges_from, dg_edges_between, dg_ret>>

---------------------------------------------------------------------------
(* Bounds and inputs                                                       *)

\* add_edge stores a new edge only while fewer than MaxEdges are stored.
MaxEdges == 2

\* The labels the calls are made with (those of the tests).
VertexLabels == {"X1", "X2", "X3"}
EdgeLabels == {"a", "b"}

\* The usize arguments the calls are made with: every index the graph can
\* issue and one more, which no reachable graph issues.
VertexIndexes == 0 .. Cardinality(VertexLabels)
EdgeIndexes == 0 .. MaxEdges

Vertex(l) == [label |-> l]
Edge(s, l, t) == [source |-> s, label |-> l, target |-> t]

\* The Vertex and Edge of directed_graph.rs: the payload field is `data`.
dg_Vertex(d) == [data |-> d]
dg_Edge(s, d, t) == [source |-> s, data |-> d, target |-> t]

Vertices == {Vertex(l) : l \in VertexLabels}
Edges == {Edge(s, l, t) : s \in VertexIndexes, l \in EdgeLabels, t \in VertexIndexes}

---------------------------------------------------------------------------
(* std: Option, HashMap, HashSet iteration, panic                          *)

None == [tag |-> "None"]
Some(x) == [tag |-> "Some", value |-> x]

\* A call that returned x / a call that panicked with message msg.
Returned(x) == [tag |-> "returned", value |-> x]
Panicked(msg) == [tag |-> "panicked", message |-> msg]

EmptyMap == <<>>

\* HashMap::get
MapGet(m, k) == IF k \in DOMAIN m THEN Some(m[k]) ELSE None

\* HashMap::insert
MapInsert(m, k, v) == [x \in (DOMAIN m) \cup {k} |-> IF x = k THEN v ELSE m[x]]

\* HashMap::len
MapLen(m) == Cardinality(DOMAIN m)

\* The sequences an iterator over a HashSet (or over a HashMap's keys) may
\* yield: every element once, in an order the hasher decides.
Iter(S) ==
    {s \in [1 .. Cardinality(S) -> S] : \A i, j \in DOMAIN s : s[i] = s[j] => i = j}

\* Iterator::collect into a HashSet
Collect(s) == {s[i] : i \in DOMAIN s}

IsNone(o) == o.tag = "None"
IsSome(o) == o.tag = "Some"

---------------------------------------------------------------------------
(* LabeledMultidigraph::new                                                *)

Call(op, arg, out) == [op |-> op, arg |-> arg, out |-> out]

\* No call is in progress and no result is held.
NoCall == Call("idle", <<>>, Returned(<<>>))

Init ==
    /\ vertex_to_index = EmptyMap
    /\ index_to_vertex = EmptyMap
    /\ edge_to_index = EmptyMap
    /\ index_to_edge = EmptyMap
    /\ edges_from = EmptyMap
    /\ edges_between = EmptyMap
    /\ ret = NoCall
    /\ added_vertices = EmptyMap
    /\ added_edges = EmptyMap
    /\ dg_vertex_to_index = EmptyMap
    /\ dg_index_to_vertex = EmptyMap
    /\ dg_edge_to_index = EmptyMap
    /\ dg_index_to_edge = EmptyMap
    /\ dg_edges_from = EmptyMap
    /\ dg_edges_between = EmptyMap
    /\ dg_ret = NoCall

---------------------------------------------------------------------------
(* add_vertex, contains_vertex, get_vertex                                 *)

\* Mutant of add_vertex_lookup: the vertex is never found.
add_vertex_lookup_miss(vertex) == None

\* `if let Some(&vertex_index) = self.vertex_to_index.get(&vertex)`
add_vertex_lookup(vertex) == MapGet(vertex_to_index, vertex)

\* Mutant of add_vertex_new_index: indexes are counted from one.
add_vertex_new_index_from_one == MapLen(vertex_to_index) + 1

\* `let vertex_index = self.vertex_to_index.len();`
add_vertex_new_index == MapLen(vertex_to_index)

\* `self.vertex_to_index.insert(vertex_rc.clone(), vertex_index);`
add_vertex_vertex_to_index(vertex, vertex_index) ==
    MapInsert(vertex_to_index, vertex, vertex_index)

\* Mutant of add_vertex_index_to_vertex: the reverse map is not updated.
add_vertex_index_to_vertex_skip(vertex, vertex_index) == index_to_vertex

\* `self.index_to_vertex.insert(vertex_index, vertex_rc);`
add_vertex_index_to_vertex(vertex, vertex_index) ==
    MapInsert(index_to_vertex, vertex_index, vertex)

add_vertex(vertex) ==
    LET found == add_vertex_lookup(vertex) IN
    IF IsSome(found)
    THEN /\ UNCHANGED graph
         /\ ret' = Call("add_vertex", vertex, Returned(found.value))
         /\ added_vertices' = MapInsert(added_vertices, vertex, found.value)
         /\ UNCHANGED added_edges
    ELSE LET vertex_index == add_vertex_new_index IN
         /\ vertex_to_index' = add_vertex_vertex_to_index(vertex, vertex_index)
         /\ index_to_vertex' = add_vertex_index_to_vertex(vertex, vertex_index)
         /\ UNCHANGED <<edge_to_index, index_to_edge, edges_from, edges_between>>
         /\ ret' = Call("add_vertex", vertex, Returned(vertex_index))
         /\ added_vertices' = MapInsert(added_vertices, vertex, vertex_index)
         /\ UNCHANGED added_edges

\* The outcome of contains_vertex: it has no panicking path.
contains_vertex_outcome(vertex) == Returned(MapGet(vertex_to_index, vertex))

contains_vertex(vertex) ==
    /\ ret' = Call("contains_vertex", vertex, contains_vertex_outcome(vertex))
    /\ UNCHANGED <<graph, history>>

\* The outcome of get_vertex: `.expect("vertex index out of bounds")`.
get_vertex_outcome(vertex_index) ==
    LET found == MapGet(index_to_vertex, vertex_index) IN
    IF IsSome(found) THEN Returned(found.value)
    ELSE Panicked("vertex index out of bounds")

get_vertex(vertex_index) ==
    /\ ret' = Call("get_vertex", vertex_index, get_vertex_outcome(vertex_index))
    /\ UNCHANGED <<graph, history>>

---------------------------------------------------------------------------
(* get_neighbors, get_edges_from                                           *)

\* Mutant of get_neighbors_outcomes: the source of each edge is yielded, not
\* its target.
get_neighbors_outcomes_sources(vertex_index) ==
    IF IsNone(MapGet(index_to_vertex, vertex_index))
    THEN {Panicked("vertex index out of bounds")}
    ELSE LET found == MapGet(edges_from, vertex_index) IN
         IF IsSome(found)
         THEN {Returned([i \in DOMAIN s |-> index_to_edge[s[i]].source]) :
                  s \in Iter(found.value)}
         ELSE {Returned(<<>>)}

\* Mutant of get_neighbors_outcomes: the targets are collected into a set
\* first, so each neighbor is yielded once.
get_neighbors_outcomes_distinct(vertex_index) ==
    IF IsNone(MapGet(index_to_vertex, vertex_index))
    THEN {Panicked("vertex index out of bounds")}
    ELSE LET found == MapGet(edges_from, vertex_index) IN
         IF IsSome(found)
         THEN {Returned(s) :
                  s \in Iter({index_to_edge[e].target : e \in found.value})}
         ELSE {Returned(<<>>)}

\* The outcomes of get_neighbors: a panic, or the collected items of the
\* returned iterator, one sequence for each order the HashSet may iterate in.
get_neighbors_outcomes(vertex_index) ==
    IF IsNone(MapGet(index_to_vertex, vertex_index))
    THEN {Panicked("vertex index out of bounds")}
    ELSE LET found == MapGet(edges_from, vertex_index) IN
         IF IsSome(found)
         THEN {Returned([i \in DOMAIN s |-> index_to_edge[s[i]].target]) :
                  s \in Iter(found.value)}
         ELSE {Returned(<<>>)}

get_neighbors(vertex_index) ==
    /\ \E out \in get_neighbors_outcomes(vertex_index) :
          ret' = Call("get_neighbors", vertex_index, out)
    /\ UNCHANGED <<graph, history>>

\* Mutant of get_edges_from_outcomes: the vertex index is not checked, and an
\* index without a key in edges_from gets the empty iterator.
get_edges_from_outcomes_unchecked(vertex_index) ==
    LET found == MapGet(edges_from, vertex_index) IN
    IF IsSome(found)
    THEN {Returned(s) : s \in Iter(found.value)}
    ELSE {Returned(<<>>)}

get_edges_from_outcomes(vertex_index) ==
    IF IsNone(MapGet(index_to_vertex, vertex_index))
    THEN {Panicked("vertex index out of bounds")}
    ELSE LET found == MapGet(edges_from, vertex_index) IN
         IF IsSome(found)
         THEN {Returned(s) : s \in Iter(found.value)}
         ELSE {Returned(<<>>)}

get_edges_from(vertex_index) ==
    /\ \E out \in get_edges_from_outcomes(vertex_index) :
          ret' = Call("get_edges_from", vertex_index, out)
    /\ UNCHANGED <<graph, history>>

---------------------------------------------------------------------------
(* add_edge, contains_edge, get_edge, get_edges_between                    *)

\* Mutant of add_edge_check: the target is not checked.
add_edge_check_source_only(edge) ==
    IF IsNone(MapGet(index_to_vertex, edge.source))
    THEN Some("source vertex index out of bounds")
    ELSE None

\* Mutant of add_edge_check: the source is not checked.
add_edge_check_target_only(edge) ==
    IF IsNone(MapGet(index_to_vertex, edge.target))
    THEN Some("target vertex index out of bounds")
    ELSE None

\* The two checks at the head of add_edge: the message of the panic!, or
\* None when both pass.
add_edge_check(edge) ==
    IF IsNone(MapGet(index_to_vertex, edge.source))
    THEN Some("source vertex index out of bounds")
    ELSE IF IsNone(MapGet(index_to_vertex, edge.target))
    THEN Some("target vertex index out of bounds")
    ELSE None

\* Mutant of add_edge_lookup: the edge is never found.
add_edge_lookup_miss(edge) == None

\* Mutant of add_edge_lookup: an edge with the same source and target is
\* found, whatever its label.
add_edge_lookup_unlabeled(edge) ==
    LET same == {e \in DOMAIN edge_to_index :
                    e.source = edge.source /\ e.target = edge.target}
    IN  IF same # {} THEN Some(edge_to_index[CHOOSE e \in same : TRUE]) ELSE None

\* `if let Some(&edge_index) = self.edge_to_index.get(&edge)`
add_edge_lookup(edge) == MapGet(edge_to_index, edge)

\* Mutant of add_edge_new_index: the vertices are counted, not the edges.
add_edge_new_index_from_vertices == MapLen(vertex_to_index)

\* Mutant of add_edge_new_index: indexes are counted from one.
add_edge_new_index_from_one == MapLen(edge_to_index) + 1

\* `let edge_index = self.edge_to_index.len();`
add_edge_new_index == MapLen(edge_to_index)

\* `self.edge_to_index.insert(edge_rc.clone(), edge_index);`
add_edge_edge_to_index(edge, edge_index) ==
    MapInsert(edge_to_index, edge, edge_index)

\* `self.index_to_edge.insert(edge_index, edge_rc);`
add_edge_index_to_edge(edge, edge_index) ==
    MapInsert(index_to_edge, edge_index, edge)

\* Mutant of add_edge_edges_from: the set under edge_source is replaced, not
\* extended.
add_edge_edges_from_overwrite(edge_source, edge_index) ==
    MapInsert(edges_from, edge_source, {edge_index})

\* edges_from after the new edge_index is recorded under edge_source.
add_edge_edges_from(edge_source, edge_index) ==
    LET found == MapGet(edges_from, edge_source) IN
    IF IsSome(found)
    THEN MapInsert(edges_from, edge_source, found.value \cup {edge_index})
    ELSE MapInsert(edges_from, edge_source, {edge_index})

\* Mutant of add_edge_edges_between: the edge index is recorded under
\* (target, source) as well, as for an undirected graph.
add_edge_edges_between_symmetric(edge_source, edge_target, edge_index) ==
    LET with(m, key) ==
            MapInsert(m, key, (IF key \in DOMAIN m THEN m[key] ELSE {}) \cup {edge_index})
    IN  with(with(edges_between, <<edge_source, edge_target>>),
             <<edge_target, edge_source>>)

\* Mutant of add_edge_edges_between: the set under the pair is replaced, not
\* extended.
add_edge_edges_between_overwrite(edge_source, edge_target, edge_index) ==
    MapInsert(edges_between, <<edge_source, edge_target>>, {edge_index})

\* edges_between after the new edge_index is recorded under the pair.
add_edge_edges_between(edge_source, edge_target, edge_index) ==
    LET key == <<edge_source, edge_target>>
        found == MapGet(edges_between, key)
    IN  IF IsSome(found)
        THEN MapInsert(edges_between, key, found.value \cup {edge_index})
        ELSE MapInsert(edges_between, key, {edge_index})

add_edge(edge) ==
    LET edge_source == edge.source
        edge_target == edge.target
        check == add_edge_check(edge)
        found == add_edge_lookup(edge)
    IN
    IF IsSome(check)
    THEN /\ ret' = Call("add_edge", edge, Panicked(check.value))
         /\ UNCHANGED <<graph, history>>
    ELSE IF IsSome(found)
    THEN /\ UNCHANGED graph
         /\ ret' = Call("add_edge", edge, Returned(found.value))
         /\ added_edges' = MapInsert(added_edges, edge, found.value)
         /\ UNCHANGED added_vertices
    ELSE LET edge_index == add_edge_new_index IN
         /\ MapLen(edge_to_index) < MaxEdges
         /\ edge_to_index' = add_edge_edge_to_index(edge, edge_index)
         /\ index_to_edge' = add_edge_index_to_edge(edge, edge_index)
         /\ edges_from' = add_edge_edges_from(edge_source, edge_index)
         /\ edges_between' = add_edge_edges_between(edge_source, edge_target, edge_index)
         /\ UNCHANGED <<vertex_to_index, index_to_vertex>>
         /\ ret' = Call("add_edge", edge, Returned(edge_index))
         /\ added_edges' = MapInsert(added_edges, edge, edge_index)
         /\ UNCHANGED added_vertices

\* Mutant of contains_edge_outcome: the source and target are checked as in
\* add_edge.
contains_edge_outcome_checked(edge) ==
    LET check == add_edge_check(edge) IN
    IF IsSome(check) THEN Panicked(check.value)
    ELSE Returned(MapGet(edge_to_index, edge))

\* The outcome of contains_edge: it has no panicking path, and does not look
\* at the edge's source and target other than as parts of the key.
contains_edge_outcome(edge) == Returned(MapGet(edge_to_index, edge))

contains_edge(edge) ==
    /\ ret' = Call("contains_edge", edge, contains_edge_outcome(edge))
    /\ UNCHANGED <<graph, history>>

\* The outcome of get_edge: `.expect("edge index out of bounds")`.
get_edge_outcome(edge_index) ==
    LET found == MapGet(index_to_edge, edge_index) IN
    IF IsSome(found) THEN Returned(found.value)
    ELSE Panicked("edge index out of bounds")

get_edge(edge_index) ==
    /\ ret' = Call("get_edge", edge_index, get_edge_outcome(edge_index))
    /\ UNCHANGED <<graph, history>>

\* Mutant of get_edges_between_outcomes: a pair without a key in
\* edges_between is unwrapped, which panics.
get_edges_between_outcomes_expect(source_vertex_index, target_vertex_index) ==
    IF IsNone(MapGet(index_to_vertex, source_vertex_index))
    THEN {Panicked("source vertex index out of bounds")}
    ELSE IF IsNone(MapGet(index_to_vertex, target_vertex_index))
    THEN {Panicked("target vertex index out of bounds")}
    ELSE LET found == MapGet(edges_between,
                             <<source_vertex_index, target_vertex_index>>)
         IN  IF IsSome(found)
             THEN {Returned(s) : s \in Iter(found.value)}
             ELSE {Panicked("no edges between")}

get_edges_between_outcomes(source_vertex_index, target_vertex_index) ==
    IF IsNone(MapGet(index_to_vertex, source_vertex_index))
    THEN {Panicked("source vertex index out of bounds")}
    ELSE IF IsNone(MapGet(index_to_vertex, target_vertex_index))
    THEN {Panicked("target vertex index out of bounds")}
    ELSE LET found == MapGet(edges_between,
                             <<source_vertex_index, target_vertex_index>>)
         IN  IF IsSome(found)
             THEN {Returned(s) : s \in Iter(found.value)}
             ELSE {Returned(<<>>)}

get_edges_between(source_vertex_index, target_vertex_index) ==
    /\ \E out \in get_edges_between_outcomes(source_vertex_index, target_vertex_index) :
          ret' = Call("get_edges_between",
                      <<source_vertex_index, target_vertex_index>>, out)
    /\ UNCHANGED <<graph, history>>

---------------------------------------------------------------------------
(* vertices, edges                                                         *)

vertices_outcomes == {Returned(s) : s \in Iter(DOMAIN index_to_vertex)}

vertices ==
    /\ \E out \in vertices_outcomes : ret' = Call("vertices", <<>>, out)
    /\ UNCHANGED <<graph, history>>

edges_outcomes == {Returned(s) : s \in Iter(DOMAIN index_to_edge)}

edges ==
    /\ \E out \in edges_outcomes : ret' = Call("edges", <<>>, out)
    /\ UNCHANGED <<graph, history>>

---------------------------------------------------------------------------
(* DirectedGraph (src/src/directed_graph.rs)                               *)

\* `if let Some(&vertex_index) = self.vertex_to_index.get(&vertex)`
dg_add_vertex_lookup(vertex) == MapGet(dg_vertex_to_index, vertex)

dg_add_vertex(vertex) ==
    LET found == dg_add_vertex_lookup(vertex) IN
    IF IsSome(found)
    THEN /\ UNCHANGED dg_graph
         /\ dg_ret' = Call("add_vertex", vertex, Returned(found.value))
    ELSE LET vertex_index == MapLen(dg_vertex_to_index) IN
         /\ dg_vertex_to_index' = MapInsert(dg_vertex_to_index, vertex, vertex_index)
         /\ dg_index_to_vertex' = MapInsert(dg_index_to_vertex, vertex_index, vertex)
         /\ UNCHANGED <<dg_edge_to_index, dg_index_to_edge, dg_edges_from,
                        dg_edges_between>>
         /\ dg_ret' = Call("add_vertex", vertex, Returned(vertex_index))

dg_contains_vertex_outcome(vertex) == Returned(MapGet(dg_vertex_to_index, vertex))

dg_get_vertex_outcome(vertex_index) ==
    LET found == MapGet(dg_index_to_vertex, vertex_index) IN
    IF IsSome(found) THEN Returned(found.value)
    ELSE Panicked("vertex index out of bounds")

dg_get_neighbors_outcomes(vertex_index) ==
    IF IsNone(MapGet(dg_index_to_vertex, vertex_index))
    THEN {Panicked("vertex index out of bounds")}
    ELSE LET found == MapGet(dg_edges_from, vertex_index) IN
         IF IsSome(found)
         THEN {Returned([i \in DOMAIN s |-> dg_index_to_edge[s[i]].target]) :
                  s \in Iter(found.value)}
         ELSE {Returned(<<>>)}

dg_get_edges_from_outcomes(vertex_index) ==
    IF IsNone(MapGet(dg_index_to_vertex, vertex_index))
    THEN {Panicked("vertex index out of bounds")}
    ELSE LET found == MapGet(dg_edges_from, vertex_index) IN
         IF IsSome(found)
         THEN {Returned(s) : s \in Iter(found.value)}
         ELSE {Returned(<<>>)}

\* Mutant of dg_add_edge_lookup: an edge with the same source and target is
\* found, whatever its data.
dg_add_edge_lookup_unlabeled(edge) ==
    LET same == {e \in DOMAIN dg_edge_to_index :
                    e.source = edge.source /\ e.target = edge.target}
    IN  IF same # {} THEN Some(dg_edge_to_index[CHOOSE e \in same : TRUE]) ELSE None

\* `if let Some(&edge_index) = self.edge_to_index.get(&edge)`
dg_add_edge_lookup(edge) == MapGet(dg_edge_to_index, edge)

dg_add_edge(edge) ==
    LET edge_source == edge.source
        edge_target == edge.target
        key == <<edge_source, edge_target>>
        found == dg_add_edge_lookup(edge)
    IN
    IF IsNone(MapGet(dg_index_to_vertex, edge_source))
    THEN /\ dg_ret' = Call("add_edge", edge,
                           Panicked("source vertex index out of bounds"))
         /\ UNCHANGED dg_graph
    ELSE IF IsNone(MapGet(dg_index_to_vertex, edge_target))
    THEN /\ dg_ret' = Call("add_edge", edge,
                           Panicked("target vertex index out of bounds"))
         /\ UNCHANGED dg_graph
    ELSE IF IsSome(found)
    THEN /\ UNCHANGED dg_graph
         /\ dg_ret' = Call("add_edge", edge, Returned(found.value))
    ELSE LET edge_index == MapLen(dg_edge_to_index) IN
         /\ MapLen(dg_edge_to_index) < MaxEdges
         /\ dg_edge_to_index' = MapInsert(dg_edge_to_index, edge, edge_index)
         /\ dg_index_to_edge' = MapInsert(dg_index_to_edge, edge_index, edge)
         /\ dg_edges_from' =
               IF IsSome(MapGet(dg_edges_from, edge_source))
               THEN MapInsert(dg_edges_from, edge_source,
                              dg_edges_from[edge_source] \cup {edge_index})
               ELSE MapInsert(dg_edges_from, edge_source, {edge_index})
         /\ dg_edges_between' =
               IF IsSome(MapGet(dg_edges_between, key))
               THEN MapInsert(dg_edges_between, key,
                              dg_edges_between[key] \cup {edge_index})
               ELSE MapInsert(dg_edges_between, key, {edge_index})
         /\ UNCHANGED <<dg_vertex_to_index, dg_index_to_vertex>>
         /\ dg_ret' = Call("add_edge", edge, Returned(edge_index))

dg_contains_edge_outcome(edge) == Returned(MapGet(dg_edge_to_index, edge))

dg_get_edge_outcome(edge_index) ==
    LET found == MapGet(dg_index_to_edge, edge_index) IN
    IF IsSome(found) THEN Returned(found.value)
    ELSE Panicked("edge index out of bounds")

dg_get_edges_between_outcomes(source_vertex_index, target_vertex_index) ==
    IF IsNone(MapGet(dg_index_to_vertex, source_vertex_index))
    THEN {Panicked("source vertex index out of bounds")}
    ELSE IF IsNone(MapGet(dg_index_to_vertex, target_vertex_index))
    THEN {Panicked("target vertex index out of bounds")}
    ELSE LET found == MapGet(dg_edges_between,
                             <<source_vertex_index, target_vertex_index>>)
         IN  IF IsSome(found)
             THEN {Returned(s) : s \in Iter(found.value)}
             ELSE {Returned(<<>>)}

dg_vertices_outcomes == {Returned(s) : s \in Iter(DOMAIN dg_index_to_vertex)}

dg_edges_outcomes == {Returned(s) : s \in Iter(DOMAIN dg_index_to_edge)}

\* A method that takes &self: one of its outcomes is returned to the caller.
dg_query(op, arg, outcomes) ==
    /\ \E out \in outcomes : dg_ret' = Call(op, arg, out)
    /\ UNCHANGED dg_graph

---------------------------------------------------------------------------
(* The specification: any sequence of calls on a new graph                 *)

\* The caller is single-threaded and makes one call at a time: it holds no
\* result when it makes a call, and lets go of the result (for an iterator,
\* ending its borrow of the graph) before the next one.
Idle == ret.op = "idle"

\* In Spec the calls are made on the LabeledMultidigraph alone; the
\* DirectedGraph is not used and stays new.
Alone == Idle /\ UNCHANGED dg_vars

AddVertex == Alone /\ \E vertex \in Vertices : add_vertex(vertex)
ContainsVertex == Alone /\ \E vertex \in Vertices : contains_vertex(vertex)
GetVertex == Alone /\ \E vertex_index \in VertexIndexes : get_vertex(vertex_index)
GetNeighbors == Alone /\ \E vertex_index \in VertexIndexes : get_neighbors(vertex_index)
GetEdgesFrom == Alone /\ \E vertex_index \in VertexIndexes : get_edges_from(vertex_index)
AddEdge == Alone /\ \E edge \in Edges : add_edge(edge)
ContainsEdge == Alone /\ \E edge \in Edges : contains_edge(edge)
GetEdge == Alone /\ \E edge_index \in EdgeIndexes : get_edge(edge_index)
GetEdgesBetween == Alone /\ \E u, w \in VertexIndexes : get_edges_between(u, w)
VerticesCall == Alone /\ vertices
EdgesCall == Alone /\ edges

Drop ==
    /\ ~Idle
    /\ ret' = NoCall
    /\ UNCHANGED <<graph, history, dg_vars>>

Next ==
    \/ AddVertex
    \/ ContainsVertex
    \/ GetVertex
    \/ GetNeighbors
    \/ GetEdgesFrom
    \/ AddEdge
    \/ ContainsEdge
    \/ GetEdge
    \/ GetEdgesBetween
    \/ VerticesCall
    \/ EdgesCall
    \/ Drop

Spec == Init /\ [][Next]_vars

---------------------------------------------------------------------------
(* The second specification: the same sequence of calls on a new           *)
(* LabeledMultidigraph and on a new DirectedGraph                          *)

\* The argument a call on the DirectedGraph gets: `label` becomes `data`.
AsDataVertex(vertex) == dg_Vertex(vertex.label)
AsDataEdge(edge) == dg_Edge(edge.source, edge.label, edge.target)

\* The pair of graphs has the state of both and an iterator order for each,
\* so the vertices added to the pair are drawn from two of the labels; the
\* queries range over all vertices and all indexes as in Spec.
BothVertexLabels == {"X1", "X2"}

BothAddVertex ==
    Idle /\ \E label \in BothVertexLabels :
               add_vertex(Vertex(label)) /\ dg_add_vertex(AsDataVertex(Vertex(label)))
BothContainsVertex ==
    Idle /\ \E vertex \in Vertices :
               /\ contains_vertex(vertex)
               /\ dg_query("contains_vertex", AsDataVertex(vertex),
                           {dg_contains_vertex_outcome(AsDataVertex(vertex))})
BothGetVertex ==
    Idle /\ \E vertex_index \in VertexIndexes :
               /\ get_vertex(vertex_index)
               /\ dg_query("get_vertex", vertex_index,
                           {dg_get_vertex_outcome(vertex_index)})
BothGetNeighbors ==
    Idle /\ \E vertex_index \in VertexIndexes :
               /\ get_neighbors(vertex_index)
               /\ dg_query("get_neighbors", vertex_index,
                           dg_get_neighbors_outcomes(vertex_index))
BothGetEdgesFrom ==
    Idle /\ \E vertex_index \in VertexIndexes :
               /\ get_edges_from(vertex_index)
               /\ dg_query("get_edges_from", vertex_index,
                           dg_get_edges_from_outcomes(vertex_index))
BothAddEdge ==
    Idle /\ \E edge \in Edges : add_edge(edge) /\ dg_add_edge(AsDataEdge(edge))
BothContainsEdge ==
    Idle /\ \E edge \in Edges :
               /\ contains_edge(edge)
               /\ dg_query("contains_edge", AsDataEdge(edge),
                           {dg_contains_edge_outcome(AsDataEdge(edge))})
BothGetEdge ==
    Idle /\ \E edge_index \in EdgeIndexes :
               /\ get_edge(edge_index)
               /\ dg_query("get_edge", edge_index, {dg_get_edge_outcome(edge_index)})
BothGetEdgesBetween ==
    Idle /\ \E u, w \in VertexIndexes :
               /\ get_edges_between(u, w)
               /\ dg_query("get_edges_between", <<u, w>>,
                           dg_get_edges_between_outcomes(u, w))
BothVertices == Idle /\ vertices /\ dg_query("vertices", <<>>, dg_vertices_outcomes)
BothEdges == Idle /\ edges /\ dg_query("edges", <<>>, dg_edges_outcomes)

BothDrop ==
    /\ ~Idle
    /\ ret' = NoCall
    /\ dg_ret' = NoCall
    /\ UNCHANGED <<graph, history, dg_graph>>

BothNext ==
    \/ BothAddVertex
    \/ BothContainsVertex
    \/ BothGetVertex
    \/ BothGetNeighbors
    \/ BothGetEdgesFrom
    \/ BothAddEdge
    \/ BothContainsEdge
    \/ BothGetEdge
    \/ BothGetEdgesBetween
    \/ BothVertices
    \/ BothEdges
    \/ BothDrop

SpecBoth == Init /\ [][BothNext]_vars

---------------------------------------------------------------------------
(* What a caller has observed so far                                       *)

\* The vertex and edge indexes the graph has issued: those add_vertex and
\* add_edge have returned.
IssuedVertexIndexes == {added_vertices[v] : v \in DOMAIN added_vertices}
IssuedEdgeIndexes == {added_edges[e] : e \in DOMAIN added_edges}

\* The step is a call of the method op.
Calls(op) == Idle /\ ret'.op = op

\* The edge get_edge returns for an issued edge index.
EdgeAt(e) == get_edge_outcome(e).value

\* The issued edge indexes get_edge gives the source u / the source u and
\* the target w.
EdgesWithSource(u) ==
    {e \in IssuedEdgeIndexes :
        get_edge_outcome(e).tag = "returned" /\ EdgeAt(e).source = u}
EdgesWithSourceTarget(u, w) ==
    {e \in EdgesWithSource(u) : EdgeAt(e).target = w}

\* A predicate on the graph and the history is stated for the states between
\* two calls.  Drop changes ret alone, so the graph and history of every
\* reachable state are those of a state between two calls, and the predicate
\* then holds of them in every reachable state.
BetweenCalls == Idle

---------------------------------------------------------------------------
(* The claims                                                              *)

\* C1: adjacency consistency.  In every reachable state, for all issued
\* vertex indexes u, w and every issued edge index e: get_edges_from(u)
\* yields e iff get_edge(e).source = u, and get_edges_between(u, w) yields e
\* iff get_edge(e).source = u and get_edge(e).target = w.
C1_AdjacencyConsistency ==
    BetweenCalls =>
        /\ \A e \in IssuedEdgeIndexes : get_edge_outcome(e).tag = "returned"
        /\ \A u \in IssuedVertexIndexes :
              /\ \A out \in get_edges_from_outcomes(u) :
                    /\ out.tag = "returned"
                    /\ Collect(out.value) = EdgesWithSource(u)
              /\ \A w \in IssuedVertexIndexes :
                    \A out \in get_edges_between_outcomes(u, w) :
                       /\ out.tag = "returned"
                       /\ Collect(out.value) = EdgesWithSourceTarget(u, w)

\* C1 witness: get_edges_between(u, w) has yielded two edges from u to
\* another vertex w.
C1_Witness ==
    /\ ret.op = "get_edges_between"
    /\ ret.out.tag = "returned"
    /\ Len(ret.out.value) = 2
    /\ ret.arg[1] # ret.arg[2]
    /\ \A e \in Collect(ret.out.value) :
          EdgeAt(e).source = ret.arg[1] /\ EdgeAt(e).target = ret.arg[2]

\* C2: add_vertex with the label of a vertex that is already present (one
\* get_vertex returns for an issued index i) returns i and leaves all six
\* maps as they were.
C2_AddVertexIdempotent ==
    [][Calls("add_vertex") =>
          \A i \in IssuedVertexIndexes :
             (get_vertex_outcome(i) = Returned(ret'.arg))
                => (ret'.out = Returned(i) /\ graph' = graph)]_vars

\* C2 witness: add_vertex has returned an index that is not the newest one.
C2_Witness ==
    /\ ret.op = "add_vertex"
    /\ ret.out = Returned(0)
    /\ MapLen(vertex_to_index) = 2
    /\ MapLen(edge_to_index) = 1

\* C3: add_edge with the (source, label, target) of an edge that is already
\* present (one get_edge returns for an issued index j) returns j and leaves
\* all six maps as they were.
C3_AddEdgeIdempotent ==
    [][Calls("add_edge") =>
          \A j \in IssuedEdgeIndexes :
             (get_edge_outcome(j) = Returned(ret'.arg))
                => (ret'.out = Returned(j) /\ graph' = graph)]_vars

\* C3 witness: add_edge has returned an index that is not the newest one.
C3_Witness ==
    /\ ret.op = "add_edge"
    /\ ret.out = Returned(0)
    /\ MapLen(edge_to_index) = 2
    /\ \A u \in DOMAIN edges_from : Cardinality(edges_from[u]) = 2

\* C4: index density.  vertices() yields exactly 0 .. N-1, N the number of
\* distinct vertex labels inserted, and edges() yields exactly 0 .. M-1, M
\* the number of distinct triples inserted.
C4_IndexDensity ==
    BetweenCalls =>
        /\ \A out \in vertices_outcomes :
              /\ out.tag = "returned"
              /\ Collect(out.value) = 0 .. (Cardinality(DOMAIN added_vertices) - 1)
        /\ \A out \in edges_outcomes :
              /\ out.tag = "returned"
              /\ Collect(out.value) = 0 .. (Cardinality(DOMAIN added_edges) - 1)

\* C4 witness: edges() has yielded two edge indexes of a graph of three
\* vertices.
C4_Witness ==
    /\ ret.op = "edges"
    /\ Collect(ret.out.value) = {0, 1}
    /\ \E out \in vertices_outcomes : Collect(out.value) = {0, 1, 2}

\* C5: vertex round trip.  For every inserted vertex, contains_vertex returns
\* Some of the index add_vertex returned, and get_vertex of that index
\* returns the vertex; vertex_to_index and index_to_vertex are inverse
\* bijections of equal size.
C5_VertexRoundTrip ==
    BetweenCalls =>
        /\ \A vertex \in DOMAIN added_vertices :
              /\ contains_vertex_outcome(vertex)
                    = Returned(Some(added_vertices[vertex]))
              /\ get_vertex_outcome(added_vertices[vertex]) = Returned(vertex)
        /\ MapLen(vertex_to_index) = MapLen(index_to_vertex)
        /\ \A vertex \in DOMAIN vertex_to_index :
              MapGet(index_to_vertex, vertex_to_index[vertex]) = Some(vertex)
        /\ \A i \in DOMAIN index_to_vertex :
              MapGet(vertex_to_index, index_to_vertex[i]) = Some(i)

\* C5 witness: contains_vertex has found the third of three vertices.
C5_Witness ==
    /\ ret.op = "contains_vertex"
    /\ ret.out = Returned(Some(2))
    /\ get_vertex_outcome(2) = Returned(ret.arg)

\* C6: edge round trip.  For every inserted edge, contains_edge returns Some
\* of the index add_edge returned, and get_edge of that index returns the
\* edge with its source, label and target; edge_to_index and index_to_edge
\* are inverse bijections of equal size.
C6_EdgeRoundTrip ==
    BetweenCalls =>
        /\ \A edge \in DOMAIN added_edges :
              /\ contains_edge_outcome(edge) = Returned(Some(added_edges[edge]))
              /\ get_edge_outcome(added_edges[edge]) = Returned(edge)
        /\ MapLen(edge_to_index) = MapLen(index_to_edge)
        /\ \A edge \in DOMAIN edge_to_index :
              MapGet(index_to_edge, edge_to_index[edge]) = Some(edge)
        /\ \A j \in DOMAIN index_to_edge :
              MapGet(edge_to_index, index_to_edge[j]) = Some(j)

\* C6 witness: contains_edge has found the second of two edges, which differ
\* in the label only.
C6_Witness ==
    /\ ret.op = "contains_edge"
    /\ ret.out = Returned(Some(1))
    /\ get_edge_outcome(1) = Returned(ret.arg)
    /\ EdgeAt(0).source = ret.arg.source
    /\ EdgeAt(0).target = ret.arg.target

\* C7: add_edge with a source or a target that is not an issued vertex index
\* panics and leaves the graph as it was: no edge is stored, no edge index is
\* used up, neither adjacency index is changed.
C7_AddEdgePanics ==
    [][Calls("add_edge") =>
          ((ret'.arg.source \notin IssuedVertexIndexes
               \/ ret'.arg.target \notin IssuedVertexIndexes)
             => /\ ret'.out.tag = "panicked"
                /\ graph' = graph
                /\ history' = history)]_vars

\* C7 witness: add_edge has panicked on the target, its source being issued,
\* in a graph that holds an edge.
C7_Witness ==
    /\ ret.op = "add_edge"
    /\ ret.out = Panicked("target vertex index out of bounds")
    /\ ret.arg.source \in IssuedVertexIndexes
    /\ MapLen(edge_to_index) = 1

\* C8: get_vertex, get_neighbors and get_edges_from panic for a vertex index
\* that is not issued and return for one that is; get_edges_between panics
\* when either index is not issued and returns when both are; get_edge
\* panics for an edge index that is not issued and returns for one that is.
C8_FatalOnBadIndex ==
    BetweenCalls =>
        /\ \A i \in VertexIndexes :
              LET tag == IF i \in IssuedVertexIndexes THEN "returned" ELSE "panicked"
              IN  /\ get_vertex_outcome(i).tag = tag
                  /\ \A out \in get_neighbors_outcomes(i) : out.tag = tag
                  /\ \A out \in get_edges_from_outcomes(i) : out.tag = tag
        /\ \A u, w \in VertexIndexes :
              LET tag == IF u \in IssuedVertexIndexes /\ w \in IssuedVertexIndexes
                         THEN "returned" ELSE "panicked"
              IN  \A out \in get_edges_between_outcomes(u, w) : out.tag = tag
        /\ \A j \in EdgeIndexes :
              get_edge_outcome(j).tag
                 = IF j \in IssuedEdgeIndexes THEN "returned" ELSE "panicked"

\* C8 witness: get_neighbors has panicked on the first index that is not
\* issued, in a graph of two vertices.
C8_Witness ==
    /\ ret.op = "get_neighbors"
    /\ ret.out = Panicked("vertex index out of bounds")
    /\ ret.arg = 2
    /\ IssuedVertexIndexes = {0, 1}

\* C9: contains_vertex and contains_edge return (they do not panic) and
\* change nothing; for a vertex or an edge that has not been inserted they
\* return None, also when the edge's source or target is no issued vertex
\* index.
C9_ContainsNeverAborts ==
    [][/\ Calls("contains_vertex") =>
             /\ ret'.out.tag = "returned"
             /\ graph' = graph
             /\ (ret'.arg \notin DOMAIN added_vertices) => IsNone(ret'.out.value)
       /\ Calls("contains_edge") =>
             /\ ret'.out.tag = "returned"
             /\ graph' = graph
             /\ (ret'.arg \notin DOMAIN added_edges) => IsNone(ret'.out.value)]_vars

\* C9 witness: contains_edge has returned None for an edge whose target is
\* not an issued vertex index, in a graph that holds an edge.
C9_Witness ==
    /\ ret.op = "contains_edge"
    /\ ret.out = Returned(None)
    /\ ret.arg.source \in IssuedVertexIndexes
    /\ ret.arg.target \notin IssuedVertexIndexes
    /\ MapLen(edge_to_index) = 1

\* C10: for every issued vertex index v, the values get_neighbors(v) yields
\* are, as a set, the targets of the issued edges whose source is v; a vertex
\* w that is the source of an edge into v and the target of no edge from v is
\* not among them.
C10_NeighborsAreTargets ==
    BetweenCalls =>
        \A v \in IssuedVertexIndexes :
           \A out \in get_neighbors_outcomes(v) :
              /\ out.tag = "returned"
              /\ Collect(out.value) = {EdgeAt(e).target : e \in EdgesWithSource(v)}
              /\ \A w \in IssuedVertexIndexes :
                    (EdgesWithSourceTarget(w, v) # {} /\ EdgesWithSourceTarget(v, w) = {})
                       => w \notin Collect(out.value)

\* C10 witness: get_neighbors(v) has yielded a vertex other than v while
\* another vertex w, which it has not yielded, is the source of an edge
\* into v.
C10_Witness ==
    /\ ret.op = "get_neighbors"
    /\ ret.out.tag = "returned"
    /\ \E x \in Collect(ret.out.value) : x # ret.arg
    /\ \E w \in IssuedVertexIndexes :
          /\ w # ret.arg
          /\ EdgesWithSourceTarget(w, ret.arg) # {}
          /\ w \notin Collect(ret.out.value)

\* C11: multigraph identity.  When add_edge returns j for an edge, the
\* earlier successful add_edge calls that returned j are exactly those with
\* the same (source, label, target); edges that differ in the label, the
\* source or the target have other indexes, and all the inserted edges from
\* u to w are yielded by get_edges_between(u, w).  When add_vertex returns i
\* for a vertex, the earlier calls that returned i are exactly those with the
\* same label.
C11_MultigraphIdentity ==
    [][/\ (Calls("add_edge") /\ ret'.out.tag = "returned") =>
             /\ \A other \in DOMAIN added_edges :
                   (added_edges[other] = ret'.out.value) <=> (other = ret'.arg)
             /\ \A u, w \in VertexIndexes :
                   (u = ret'.arg.source /\ w = ret'.arg.target) =>
                      \A out \in get_edges_between_outcomes(u, w)' :
                         /\ out.tag = "returned"
                         /\ \A other \in DOMAIN added_edges' :
                               (other.source = u /\ other.target = w)
                                  => added_edges'[other] \in Collect(out.value)
       /\ Calls("add_vertex") =>
             /\ ret'.out.tag = "returned"
             /\ \A other \in DOMAIN added_vertices :
                   (added_vertices[other] = ret'.out.value) <=> (other = ret'.arg)]_vars

\* C11 witness: add_edge has returned a second index for an edge that
\* differs from the first in the label only, and get_edges_between of its
\* source and target yields both.
C11_Witness ==
    /\ ret.op = "add_edge"
    /\ ret.out = Returned(1)
    /\ ret.arg.source # ret.arg.target
    /\ get_edge_outcome(0).tag = "returned"
    /\ EdgeAt(0).source = ret.arg.source
    /\ EdgeAt(0).target = ret.arg.target
    /\ EdgeAt(0).label # ret.arg.label
    /\ \A out \in get_edges_between_outcomes(ret.arg.source, ret.arg.target) :
          Collect(out.value) = {0, 1}

\* C12: index stability.  No step (a call that returns, a call that panics,
\* the caller letting go of a result) changes or removes an index on record,
\* and a call that panics changes neither the graph nor the record.  After
\* every step that changes the graph or the record, every vertex for which
\* add_vertex has returned i is what get_vertex(i) returns and
\* contains_vertex returns Some(i) for it; every edge for which add_edge has
\* returned j is what get_edge(j) returns, contains_edge returns Some(j) for
\* it, and j is yielded by get_edges_from of its source and by
\* get_edges_between of its source and target.  (A step that changes neither
\* leaves the results of all these calls as they were.)
C12_IndexStability ==
    [][/\ \A vertex \in DOMAIN added_vertices :
             /\ vertex \in DOMAIN added_vertices'
             /\ added_vertices'[vertex] = added_vertices[vertex]
       /\ \A edge \in DOMAIN added_edges :
             /\ edge \in DOMAIN added_edges'
             /\ added_edges'[edge] = added_edges[edge]
       /\ (ret'.out.tag = "panicked") => (graph' = graph /\ history' = history)
       /\ (graph' # graph \/ history' # history) =>
             /\ \A vertex \in DOMAIN added_vertices' :
                   /\ \A i \in VertexIndexes :
                         (i = added_vertices'[vertex])
                            => get_vertex_outcome(i)' = Returned(vertex)
                   /\ contains_vertex_outcome(vertex)'
                         = Returned(Some(added_vertices'[vertex]))
             /\ \A edge \in DOMAIN added_edges' :
                   /\ \A j \in EdgeIndexes :
                         (j = added_edges'[edge])
                            => get_edge_outcome(j)' = Returned(edge)
                   /\ contains_edge_outcome(edge)'
                         = Returned(Some(added_edges'[edge]))
                   /\ \A u, w \in VertexIndexes :
                         (u = edge.source /\ w = edge.target) =>
                            /\ \A out \in get_edges_from_outcomes(u)' :
                                  /\ out.tag = "returned"
                                  /\ added_edges'[edge] \in Collect(out.value)
                            /\ \A out \in get_edges_between_outcomes(u, w)' :
                                  /\ out.tag = "returned"
                                  /\ added_edges'[edge] \in Collect(out.value)]_vars

\* C12 witness: add_vertex has returned a third index in a graph in which
\* two edges were stored under one source and target before.
C12_Witness ==
    /\ ret.op = "add_vertex"
    /\ ret.out = Returned(2)
    /\ MapLen(edge_to_index) = 2
    /\ EdgeAt(0).source = EdgeAt(1).source
    /\ EdgeAt(0).target = EdgeAt(1).target

\* C13: for an issued vertex index v that is the source of no edge,
\* get_neighbors(v) and get_edges_from(v) return the empty sequence; for
\* issued u and w with no edge from u to w, get_edges_between(u, w) returns
\* the empty sequence, whatever edges there are from w to u or from u to
\* other vertices.
C13_EmptyNotAbort ==
    BetweenCalls =>
        /\ \A v \in IssuedVertexIndexes :
              (EdgesWithSource(v) = {}) =>
                 /\ get_neighbors_outcomes(v) = {Returned(<<>>)}
                 /\ get_edges_from_outcomes(v) = {Returned(<<>>)}
        /\ \A u, w \in IssuedVertexIndexes :
              (EdgesWithSourceTarget(u, w) = {}) =>
                 get_edges_between_outcomes(u, w) = {Returned(<<>>)}

\* C13 witness: get_edges_between(u, w) has returned the empty sequence in a
\* graph with an edge from w to u and an edge from u to a third vertex.
C13_Witness ==
    /\ ret.op = "get_edges_between"
    /\ ret.out = Returned(<<>>)
    /\ EdgesWithSourceTarget(ret.arg[2], ret.arg[1]) # {}
    /\ \E x \in IssuedVertexIndexes :
          /\ x \notin {ret.arg[1], ret.arg[2]}
          /\ EdgesWithSourceTarget(ret.arg[1], x) # {}

\* C14: sequential assignment.  add_vertex with a vertex that is not
\* present (contains_vertex returns None) returns the number of vertices
\* stored before the call, and one more vertex is stored after it; add_edge
\* with issued source and target and an edge that is not present returns the
\* number of edges stored before the call, and one more edge is stored after
\* it.
C14_SequentialAssignment ==
    [][/\ (Calls("add_vertex") /\ contains_vertex_outcome(ret'.arg) = Returned(None)) =>
             /\ ret'.out = Returned(MapLen(index_to_vertex))
             /\ MapLen(vertex_to_index) = MapLen(index_to_vertex)
             /\ MapLen(index_to_vertex') = MapLen(index_to_vertex) + 1
             /\ MapLen(vertex_to_index') = MapLen(vertex_to_index) + 1
       /\ (/\ Calls("add_edge")
           /\ ret'.arg.source \in IssuedVertexIndexes
           /\ ret'.arg.target \in IssuedVertexIndexes
           /\ contains_edge_outcome(ret'.arg) = Returned(None)) =>
             /\ ret'.out = Returned(MapLen(index_to_edge))
             /\ MapLen(edge_to_index) = MapLen(index_to_edge)
             /\ MapLen(index_to_edge') = MapLen(index_to_edge) + 1
             /\ MapLen(edge_to_index') = MapLen(edge_to_index) + 1]_vars

\* C14 witness: add_edge has stored a second edge and returned 1, in a graph
\* to which a third vertex was added with index 2.
C14_Witness ==
    /\ ret.op = "add_edge"
    /\ ret.out = Returned(1)
    /\ MapLen(index_to_edge) = 2
    /\ MapLen(index_to_vertex) = 3
    /\ \E vertex \in DOMAIN added_vertices : added_vertices[vertex] = 2

\* C15: endpoint validity.  In every reachable state the source and the
\* target of every stored edge are issued vertex indexes, below the number of
\* vertices; get_vertex returns for every value get_neighbors yields; every
\* key of edges_from and both components of every key of edges_between are
\* issued vertex indexes.
C15_EndpointValidity ==
    BetweenCalls =>
        /\ \A j \in DOMAIN index_to_edge :
              /\ index_to_edge[j].source \in IssuedVertexIndexes
              /\ index_to_edge[j].target \in IssuedVertexIndexes
              /\ index_to_edge[j].source < MapLen(index_to_vertex)
              /\ index_to_edge[j].target < MapLen(index_to_vertex)
        /\ \A v \in IssuedVertexIndexes :
              \A out \in get_neighbors_outcomes(v) :
                 /\ out.tag = "returned"
                 /\ \A x \in Collect(out.value) :
                       get_vertex_outcome(x).tag = "returned"
        /\ DOMAIN edges_from \subseteq IssuedVertexIndexes
        /\ \A key \in DOMAIN edges_between :
              key[1] \in IssuedVertexIndexes /\ key[2] \in IssuedVertexIndexes

\* C15 witness: get_neighbors has yielded the newest vertex index, which
\* get_vertex returns a vertex for.
C15_Witness ==
    /\ ret.op = "get_neighbors"
    /\ ret.out.tag = "returned"
    /\ MapLen(index_to_vertex) = 3
    /\ 2 \in Collect(ret.out.value)
    /\ get_vertex_outcome(2).tag = "returned"

\* The adjacency map after differs from the map before at the key alone,
\* where the set has gained exactly the edge index j.
GainsAt(before, after, key, j) ==
    /\ DOMAIN after = (DOMAIN before) \cup {key}
    /\ \A k \in DOMAIN before : (k # key) => (after[k] = before[k])
    /\ IF key \in DOMAIN before
       THEN j \notin before[key] /\ after[key] = before[key] \cup {j}
       ELSE after[key] = {j}

\* The methods that take &self.
Queries ==
    {"contains_vertex", "contains_edge", "get_vertex", "get_edge", "get_neighbors",
     "get_edges_from", "get_edges_between", "vertices", "edges"}

\* C16: frame conditions.  add_vertex, for a new or a present label, leaves
\* edge_to_index, index_to_edge, edges_from and edges_between as they were.
\* An add_edge that returns leaves vertex_to_index and index_to_vertex as
\* they were, and when it stores a new edge j from u to w, edges_from changes
\* at the key u alone and edges_between at the key (u, w) alone, each set
\* gaining exactly j.  Every query leaves all six maps as they were.
C16_FrameConditions ==
    [][/\ Calls("add_vertex") =>
             /\ edge_to_index' = edge_to_index
             /\ index_to_edge' = index_to_edge
             /\ edges_from' = edges_from
             /\ edges_between' = edges_between
       /\ (Calls("add_edge") /\ ret'.out.tag = "returned") =>
             /\ vertex_to_index' = vertex_to_index
             /\ index_to_vertex' = index_to_vertex
             /\ (contains_edge_outcome(ret'.arg) = Returned(None)) =>
                   /\ GainsAt(edges_from, edges_from',
                              ret'.arg.source, ret'.out.value)
                   /\ GainsAt(edges_between, edges_between',
                              <<ret'.arg.source, ret'.arg.target>>, ret'.out.value)
       /\ (Idle /\ ret'.op \in Queries) => (graph' = graph)]_vars

\* C16 witness: add_edge has stored a second edge, from another source than
\* the first.
C16_Witness ==
    /\ ret.op = "add_edge"
    /\ ret.out = Returned(1)
    /\ EdgeAt(0).source # ret.arg.source
    /\ EdgeAt(0).target = ret.arg.source
    /\ EdgeAt(0).source = ret.arg.target
    /\ DOMAIN edges_from = {EdgeAt(0).source, ret.arg.source}

\* C18: get_neighbors yields one item for each outgoing edge.  For every
\* issued vertex index v the sequence get_neighbors(v) yields is as long as
\* the one get_edges_from(v) yields, and each vertex index w occurs in it as
\* many times as there are edges from v to w (v itself once for each
\* self-loop).
C18_NeighborPerEdge ==
    BetweenCalls =>
        \A v \in IssuedVertexIndexes :
           \A out \in get_neighbors_outcomes(v) :
              /\ out.tag = "returned"
              /\ \A from \in get_edges_from_outcomes(v) :
                    from.tag = "returned" /\ Len(out.value) = Len(from.value)
              /\ Len(out.value) = Cardinality(EdgesWithSource(v))
              /\ \A w \in VertexIndexes :
                    Cardinality({i \in DOMAIN out.value : out.value[i] = w})
                       = Cardinality(EdgesWithSourceTarget(v, w))

\* C18 witness: get_neighbors(v) has yielded another vertex w twice, for two
\* edges from v to w.
C18_Witness ==
    /\ ret.op = "get_neighbors"
    /\ ret.out.tag = "returned"
    /\ Len(ret.out.value) = 2
    /\ ret.out.value[1] = ret.out.value[2]
    /\ ret.out.value[1] # ret.arg
    /\ Cardinality(EdgesWithSourceTarget(ret.arg, ret.out.value[1])) = 2

\* What the DirectedGraph holds and returns, read as a LabeledMultidigraph
\* would hold and return it: `data` becomes `label`.
AsLabelVertex(vertex) == Vertex(vertex.data)
AsLabelEdge(edge) == Edge(edge.source, edge.data, edge.target)

\* The six maps of the two graphs are equal.
SameMaps ==
    /\ DOMAIN vertex_to_index = {AsLabelVertex(v) : v \in DOMAIN dg_vertex_to_index}
    /\ \A v \in DOMAIN dg_vertex_to_index :
          vertex_to_index[AsLabelVertex(v)] = dg_vertex_to_index[v]
    /\ DOMAIN index_to_vertex = DOMAIN dg_index_to_vertex
    /\ \A i \in DOMAIN dg_index_to_vertex :
          index_to_vertex[i] = AsLabelVertex(dg_index_to_vertex[i])
    /\ DOMAIN edge_to_index = {AsLabelEdge(e) : e \in DOMAIN dg_edge_to_index}
    /\ \A e \in DOMAIN dg_edge_to_index :
          edge_to_index[AsLabelEdge(e)] = dg_edge_to_index[e]
    /\ DOMAIN index_to_edge = DOMAIN dg_index_to_edge
    /\ \A j \in DOMAIN dg_index_to_edge :
          index_to_edge[j] = AsLabelEdge(dg_index_to_edge[j])
    /\ edges_from = dg_edges_from
    /\ edges_between = dg_edges_between

\* The last call on the two graphs was the same call, and it panicked on
\* both with the same message or returned the same on both: the same index,
\* the same Option, the same vertex or edge, and for an iterator the same
\* items as a set.
SameCall ==
    /\ ret.op = dg_ret.op
    /\ ret.out.tag = dg_ret.out.tag
    /\ (ret.out.tag = "panicked") => (ret.out.message = dg_ret.out.message)
    /\ CASE ret.op \in {"add_vertex", "contains_vertex"} ->
               /\ ret.arg = AsLabelVertex(dg_ret.arg)
               /\ (ret.out.tag = "returned") => (ret.out.value = dg_ret.out.value)
         [] ret.op \in {"add_edge", "contains_edge"} ->
               /\ ret.arg = AsLabelEdge(dg_ret.arg)
               /\ (ret.out.tag = "returned") => (ret.out.value = dg_ret.out.value)
         [] ret.op = "get_vertex" ->
               /\ ret.arg = dg_ret.arg
               /\ (ret.out.tag = "returned")
                     => (ret.out.value = AsLabelVertex(dg_ret.out.value))
         [] ret.op = "get_edge" ->
               /\ ret.arg = dg_ret.arg
               /\ (ret.out.tag = "returned")
                     => (ret.out.value = AsLabelEdge(dg_ret.out.value))
         [] ret.op \in {"get_neighbors", "get_edges_from", "get_edges_between",
                        "vertices", "edges"} ->
               /\ ret.arg = dg_ret.arg
               /\ (ret.out.tag = "returned")
                     => (Collect(ret.out.value) = Collect(dg_ret.out.value))
         [] OTHER -> ret = dg_ret

\* C17: a LabeledMultidigraph and a DirectedGraph that are given the same
\* sequence of calls (with `label` for `data`) return the same indexes, the
\* same query results as sets, panic on the same calls, and have equal maps
\* after every step.
C17_Equivalent == SameMaps /\ SameCall

\* C17 witness: get_neighbors has yielded the same two neighbors on both
\* graphs, in different orders.
C17_Witness ==
    /\ ret.op = "get_neighbors"
    /\ dg_ret.op = "get_neighbors"
    /\ ret.out.tag = "returned"
    /\ Len(ret.out.value) = 2
    /\ ret.out.value # dg_ret.out.value
    /\ Collect(ret.out.value) = Collect(dg_ret.out.value)
    /\ dg_edge_to_index # EmptyMap

=============================================================================
